---- MODULE Spec2Model ----
(***************************************************************************)
(* Model of the HDB feature-engineering enrichment run                     *)
(* (src/data_transformation/feature_engineering.py): authentication, the   *)
(* nearest-location lookup, the routing-distance request, the per-subject  *)
(* enrichment loop and the batch loop that appends to HDB_Features.csv.    *)
(*                                                                         *)
(* Python values are encoded as follows.                                   *)
(*   - None for a token or for within_1km is the string "None"; the        *)
(*     booleans of within_1km are the strings "True" and "False".          *)
(*   - A distance returned by the routing service is Some(d); Python's     *)
(*     None in a distance field is NoneD.                                  *)
(*   - A call that may raise yields [raised |-> name, value |-> v], with   *)
(*     raised = "none" when it returns v.                                  *)
(*   - Coordinates lie on a 1 km grid and haversine() is the grid distance *)
(*     in km, so that distance 0, (0,1] and > 1 all occur.                 *)
(***************************************************************************)
EXTENDS Integers, Sequences, FiniteSets, TLC

VARIABLES
    pc,              \* position of the __main__ script
    api_token,       \* api_token (line 131); "unset" before authenticate() returns
    hdbs, mrts, malls, schools,   \* contents of the four coordinate CSVs
    BATCH_SIZE,      \* batch size (line 143; 100 in the source)
    BATCHES,         \* number of batches (line 144)
    i,               \* loop variable of the batch loop (line 145)
    batch,           \* hdbs.iloc[start:end] of the current batch (line 148)
    features,        \* the six parallel result lists of engineer_distance_features
    store,           \* lines of datasets/HDB_Features.csv
    store0,          \* the lines the file held before the run
    auth_resp,       \* history: what the auth endpoint answered
    auth_requests,   \* history: requests sent to TOKEN_URL
    route_requests,  \* history: requests sent to ROUTE_URL
    window_requests, \* history: requests sent to ROUTE_URL since the last sleep
    tokens_used,     \* history: Authorization headers sent to ROUTE_URL
    sleeps,          \* history: completed time.sleep(30) calls
    appends,         \* history: completed to_csv calls
    taken,           \* history: concatenation of the batches sliced so far
    lookup_failed,   \* history: per subject of the batch, which lookups failed
    failed_at,       \* history: where an uncaught exception ended the run
    n_pc, n_query, n_cands, n_ret,      \* a single nearest_loc call
    d_pc, d_args, d_resp, d_ret, d_sent \* a single get_distance call

vars == << pc, api_token, hdbs, mrts, malls, schools, BATCH_SIZE, BATCHES, i,
           batch, features, store, store0, auth_resp, auth_requests,
           route_requests, window_requests, tokens_used, sleeps, appends,
           taken, lookup_failed, failed_at,
           n_pc, n_query, n_cands, n_ret, d_pc, d_args, d_resp, d_ret, d_sent >>

mainVars == << pc, api_token, hdbs, mrts, malls, schools, BATCH_SIZE, BATCHES, i,
               batch, features, store, store0, auth_resp, auth_requests,
               route_requests, window_requests, tokens_used, sleeps, appends,
               taken, lookup_failed, failed_at >>
nearestVars == << n_pc, n_query, n_cands, n_ret >>
distanceVars == << d_pc, d_args, d_resp, d_ret, d_sent >>

----------------------------------------------------------------------------
(* Bounds of the model *)

MaxSubjects == 3
MaxBatchSize == 2
MaxCandidates == 2

----------------------------------------------------------------------------
(* Input domains *)

Coords == {0, 1}
Points == Coords \X Coords
RouteDistances == {350}
Tokens == {"tokA"}
ErrorStatuses == {404, 500}

None == "None"
NoneD == [none |-> TRUE, val |-> 0]
Some(d) == [none |-> FALSE, val |-> d]

SeqsUpTo(S, n) == UNION {[1..k -> S] : k \in 0..n}

Min(a, b) == IF a <= b THEN a ELSE b
Abs(x) == IF x < 0 THEN -x ELSE x

----------------------------------------------------------------------------
(* Answers of the two OneMap endpoints.  kind is "http" when a response    *)
(* arrived and the name of the transport exception otherwise.  parse is    *)
(* what response.json() meets: a JSON object ("dict"), another JSON value  *)
(* ("notdict"), or no JSON at all; the installed requests library then     *)
(* raises either its own JSONDecodeError (a RequestException) or the json  *)
(* module's one (a ValueError).                                            *)

TransportErrors == {"ConnectionError", "Timeout"}
ParseErrors == {"invalid_requests_exc", "invalid_value_error"}

NoRouteBody == [parse |-> "invalid_value_error", route_summary |-> "absent",
                total_distance |-> NoneD]

RouteBodies ==
    {[parse |-> p, route_summary |-> "absent", total_distance |-> NoneD] :
        p \in ParseErrors \cup {"notdict", "dict"}}
    \cup {[parse |-> "dict", route_summary |-> "notdict", total_distance |-> NoneD]}
    \cup {[parse |-> "dict", route_summary |-> "dict", total_distance |-> t] :
            t \in {NoneD} \cup {Some(d) : d \in RouteDistances}}

RouteResponses ==
    {[kind |-> k, status |-> 0, body |-> NoRouteBody] : k \in TransportErrors}
    \cup {[kind |-> "http", status |-> s, body |-> NoRouteBody] : s \in ErrorStatuses}
    \cup {[kind |-> "http", status |-> 200, body |-> b] : b \in RouteBodies}

NoAuthBody == [parse |-> "invalid_value_error", access_token |-> None]

AuthBodies ==
    {[parse |-> p, access_token |-> None] :
        p \in ParseErrors \cup {"notdict", "dict"}}
    \cup {[parse |-> "dict", access_token |-> t] : t \in Tokens}

AuthResponses ==
    {[kind |-> k, status |-> 0, body |-> NoAuthBody] : k \in TransportErrors}
    \cup {[kind |-> "http", status |-> s, body |-> NoAuthBody] : s \in ErrorStatuses}
    \cup {[kind |-> "http", status |-> 200, body |-> b] : b \in AuthBodies}

NoResponse == [kind |-> "none", status |-> 0, body |-> NoAuthBody]

(* Python's exception hierarchy, as far as the two except clauses see it. *)
IsRequestException(exc) ==
    exc \in {"ConnectionError", "Timeout", "HTTPError", "RequestsJSONDecodeError"}

IsException(exc) ==
    IsRequestException(exc) \/ exc \in {"ValueError", "AttributeError"}

(* response.raise_for_status() *)
raise_for_status(resp) ==
    IF resp.status >= 400 /\ resp.status < 600 THEN "HTTPError" ELSE "none"

(* response.json(): the exception it raises, "none" when the body parses *)
json_raises(body) ==
    CASE body.parse = "invalid_requests_exc" -> "RequestsJSONDecodeError"
      [] body.parse = "invalid_value_error" -> "ValueError"
      [] OTHER -> "none"

Return(v) == [raised |-> "none", value |-> v]
Raise(exc, v) == [raised |-> exc, value |-> v]

----------------------------------------------------------------------------
(* authenticate(), lines 15-26 *)

authenticate_try(resp) ==
    IF resp.kind # "http" THEN Raise(resp.kind, None)
    ELSE IF raise_for_status(resp) # "none" THEN Raise(raise_for_status(resp), None)
    ELSE IF json_raises(resp.body) # "none" THEN Raise(json_raises(resp.body), None)
    ELSE IF resp.body.parse # "dict" THEN Raise("AttributeError", None)
    ELSE Return(resp.body.access_token)

authenticate(resp) ==
    LET r == authenticate_try(resp) IN
    IF r.raised # "none" /\ IsRequestException(r.raised) THEN Return(None) ELSE r

----------------------------------------------------------------------------
(* nearest_loc(), lines 30-50 *)

(* haversine(p, q, unit=KILOMETERS) on the 1 km grid *)
Haversine(p, q) == Abs(p[1] - q[1]) + Abs(p[2] - q[2])

Dists(hdb_lat, hdb_lon, loc_df) ==
    [k \in 1..Len(loc_df) |->
        Haversine(<<hdb_lat, hdb_lon>>, <<loc_df[k].Lat, loc_df[k].Long>>)]

(* np.argmin: a left-to-right scan that keeps the first minimum *)
RECURSIVE ArgMinScan(_, _, _)
ArgMinScan(dists, k, best) ==
    IF k > Len(dists) THEN best
    ELSE ArgMinScan(dists, k + 1, IF dists[k] < dists[best] THEN k ELSE best)

ArgMinLast(dists) ==
    CHOOSE k \in 1..Len(dists) :
        /\ \A j \in 1..Len(dists) : dists[k] <= dists[j]
        /\ \A j \in (k + 1)..Len(dists) : dists[j] > dists[k]

ArgMin(dists) == ArgMinScan(dists, 2, 1)

Within1kmNoNull(d) == IF d <= 1 THEN "True" ELSE "False"

(* None if dists[min_idx] == 0 else dists[min_idx] <= 1 *)
Within1km(d) == IF d = 0 THEN None ELSE IF d <= 1 THEN "True" ELSE "False"

NoNearest == [Address |-> "", Lat |-> 0, Long |-> 0, within_1km |-> None]

nearest_loc(hdb_lat, hdb_lon, loc_df) ==
    IF Len(loc_df) = 0
    THEN Raise("ValueError", NoNearest)      \* np.argmin of an empty array
    ELSE LET dists == Dists(hdb_lat, hdb_lon, loc_df)
             min_idx == ArgMin(dists)
             nearest == loc_df[min_idx]
         IN Return([Address |-> nearest.Address, Lat |-> nearest.Lat,
                    Long |-> nearest.Long,
                    within_1km |-> Within1km(dists[min_idx])])

----------------------------------------------------------------------------
(* get_distance(), lines 54-82.  resp is what the routing endpoint answers *)
(* to the one request the call sends.                                      *)

RouteRequest(hdb_lat, hdb_long, loc_lat, loc_long, api_token_) ==
    [start |-> <<hdb_lat, hdb_long>>, end |-> <<loc_lat, loc_long>>,
     token |-> api_token_]

get_distance_try(resp) ==
    IF resp.kind # "http" THEN Raise(resp.kind, NoneD)
    ELSE IF raise_for_status(resp) # "none" THEN Raise(raise_for_status(resp), NoneD)
    ELSE IF json_raises(resp.body) # "none" THEN Raise(json_raises(resp.body), NoneD)
    ELSE IF resp.body.parse # "dict" THEN Raise("AttributeError", NoneD)
    ELSE IF resp.body.route_summary = "absent" THEN Return(NoneD)
    ELSE IF resp.body.route_summary # "dict" THEN Raise("AttributeError", NoneD)
    ELSE Return(resp.body.total_distance)

GetDistanceCatchRequestException(resp) ==
    LET r == get_distance_try(resp) IN
    [raised |-> IF IsRequestException(r.raised) THEN "none" ELSE r.raised,
     value  |-> IF r.raised # "none" THEN NoneD ELSE r.value,
     sent   |-> 1]

get_distance(resp) ==
    LET r == get_distance_try(resp) IN
    [raised |-> IF IsException(r.raised) THEN "none" ELSE r.raised,
     value  |-> IF r.raised # "none" THEN NoneD ELSE r.value,
     sent   |-> 1]

----------------------------------------------------------------------------
(* Tables.  A subject row is [Address, Lat, Long]; Address is the row's   *)
(* position in HDB_LatLong.csv, so that rows can be told apart.           *)

MkHdbs(ps) == [k \in 1..Len(ps) |-> [Address |-> k, Lat |-> ps[k][1], Long |-> ps[k][2]]]

Names(prefix) ==
    IF prefix = "MRT" THEN <<"MRT1", "MRT2">>
    ELSE IF prefix = "Mall" THEN <<"Mall1", "Mall2">>
    ELSE <<"Sch1", "Sch2">>

MkTable(prefix, ps) ==
    [k \in 1..Len(ps) |-> [Address |-> Names(prefix)[k], Lat |-> ps[k][1], Long |-> ps[k][2]]]

(* The coordinate tables of the run.  The k-th housing block sits on one *)
(* of three grid points in turn; each candidate table is either empty or  *)
(* the one given here: two stations at equal distance from the first two  *)
(* blocks, two malls, one school.                                         *)
HdbPointAt(k) ==
    IF k % 3 = 1 THEN <<0, 0>> ELSE IF k % 3 = 2 THEN <<1, 1>> ELSE <<0, 1>>

HdbTables == {MkHdbs([k \in 1..n |-> HdbPointAt(k)]) : n \in 0..MaxSubjects}
MrtTables == {<<>>, MkTable("MRT", << <<0, 1>>, <<1, 0>> >>)}
MallTables == {<<>>, MkTable("Mall", << <<1, 1>>, <<0, 0>> >>)}
SchoolTables == {<<>>, MkTable("Sch", << <<0, 0>> >>)}

CandidateRows == [Address : {"A", "B"}, Lat : Coords, Long : Coords]

NoFeature == [Nearest_MRT |-> "", Distance_MRT |-> NoneD, Nearest_Mall |-> "",
              Distance_Mall |-> NoneD, Nearest_Pri_Sch |-> "",
              Within_1km_of_Pri |-> None]

(* lines 119-125: the batch's rows with the six new columns *)
EnrichedRow(subject, f) ==
    [Address |-> subject.Address, Lat |-> subject.Lat, Long |-> subject.Long,
     Nearest_MRT |-> f.Nearest_MRT, Distance_MRT |-> f.Distance_MRT,
     Nearest_Mall |-> f.Nearest_Mall, Distance_Mall |-> f.Distance_Mall,
     Nearest_Pri_Sch |-> f.Nearest_Pri_Sch,
     Within_1km_of_Pri |-> f.Within_1km_of_Pri]

EnrichedRows(batch_, features_) ==
    [k \in 1..Len(batch_) |-> EnrichedRow(batch_[k], features_[k])]

NoRow == EnrichedRow([Address |-> 0, Lat |-> 0, Long |-> 0], NoFeature)
HeaderLine == [header |-> TRUE, row |-> NoRow]
Line(row) == [header |-> FALSE, row |-> row]

(* DataFrame.to_csv(path, index=False, mode='a', header=header) *)
to_csv(df, lines, header) ==
    lines \o (IF header THEN <<HeaderLine>> ELSE <<>>) \o [k \in 1..Len(df) |-> Line(df[k])]

(* the header argument of line 151 *)
ToCsvHeader == FALSE

----------------------------------------------------------------------------
(* One iteration of the loop of engineer_distance_features, lines 105-117. *)
(* r1 and r2 are the routing endpoint's answers to the two requests.       *)

FeatureSwapped(mrt, mrt_dist, mall, mall_dist, school) ==
    [Nearest_MRT |-> mrt.Address, Distance_MRT |-> mall_dist,
     Nearest_Mall |-> mall.Address, Distance_Mall |-> mrt_dist,
     Nearest_Pri_Sch |-> school.Address, Within_1km_of_Pri |-> school.within_1km]

(* lines 112-117 and 120-125: what the six lists receive for one subject *)
Feature(mrt, mrt_dist, mall, mall_dist, school) ==
    [Nearest_MRT |-> mrt.Address, Distance_MRT |-> mrt_dist,
     Nearest_Mall |-> mall.Address, Distance_Mall |-> mall_dist,
     Nearest_Pri_Sch |-> school.Address, Within_1km_of_Pri |-> school.within_1km]

EngineerSubject(s, mrts_, malls_, schools_, token, r1, r2) ==
    LET mrt == nearest_loc(s.Lat, s.Long, mrts_)
        mrt_dist == get_distance(r1)
        mall == nearest_loc(s.Lat, s.Long, malls_)
        mall_dist == get_distance(r2)
        school == nearest_loc(s.Lat, s.Long, schools_)
        q1 == RouteRequest(s.Lat, s.Long, mrt.value.Lat, mrt.value.Long, token)
        q2 == RouteRequest(s.Lat, s.Long, mall.value.Lat, mall.value.Long, token)
    IN  IF mrt.raised # "none"
          THEN [raised |-> mrt.raised, requests |-> <<>>, feature |-> NoFeature]
        ELSE IF mrt_dist.raised # "none"
          THEN [raised |-> mrt_dist.raised, requests |-> <<q1>>, feature |-> NoFeature]
        ELSE IF mall.raised # "none"
          THEN [raised |-> mall.raised, requests |-> <<q1>>, feature |-> NoFeature]
        ELSE IF mall_dist.raised # "none"
          THEN [raised |-> mall_dist.raised, requests |-> <<q1, q2>>, feature |-> NoFeature]
        ELSE IF school.raised # "none"
          THEN [raised |-> school.raised, requests |-> <<q1, q2>>, feature |-> NoFeature]
        ELSE [raised |-> "none", requests |-> <<q1, q2>>,
              feature |-> Feature(mrt.value, mrt_dist.value, mall.value,
                                  mall_dist.value, school.value)]

----------------------------------------------------------------------------
(* The batch arithmetic of __main__, lines 143-148 *)

NumBatchesFloor(n, b) == n \div b

(* BATCHES = (len(hdbs) + BATCH_SIZE - 1) // BATCH_SIZE *)
NumBatches(n, b) == (n + b - 1) \div b

BatchStartIndex(i_, b) == i_

(* start = i * BATCH_SIZE *)
BatchStart(i_, b) == i_ * b

(* end = min(start + BATCH_SIZE, len(hdbs)) *)
BatchEnd(start, b, n) == Min(start + b, n)

(* df.iloc[start:end]: positions start .. end-1, clipped to the table *)
ILoc(df, start, end) == SubSeq(df, start + 1, Min(end, Len(df)))

TokenIsNoneNever(token) == FALSE

(* api_token is None, line 132 *)
TokenIsNone(token) == token = None

----------------------------------------------------------------------------
(* The enrichment run: __main__, lines 129-152 *)

Running == pc \in {"auth", "read", "loop", "engineer", "write", "sleep"}

Init ==
    /\ pc = "auth"
    /\ api_token = "unset"
    /\ hdbs \in HdbTables
    /\ mrts \in MrtTables
    /\ malls \in MallTables
    /\ schools \in SchoolTables
    /\ BATCH_SIZE \in 1..MaxBatchSize
    /\ BATCHES = 0
    /\ i = 0
    /\ batch = <<>>
    /\ features = <<>>
    /\ store0 \in {<<>>, <<HeaderLine>>}
    /\ store = store0
    /\ auth_resp = NoResponse
    /\ auth_requests = 0
    /\ route_requests = 0
    /\ window_requests = 0
    /\ tokens_used = {}
    /\ sleeps = 0
    /\ appends = 0
    /\ taken = <<>>
    /\ lookup_failed = <<>>
    /\ failed_at = "nowhere"
    /\ n_pc = "idle" /\ n_query = <<0, 0>> /\ n_cands = <<>> /\ n_ret = Return(NoNearest)
    /\ d_pc = "idle" /\ d_args = RouteRequest(0, 0, 0, 0, None)
    /\ d_resp = NoResponse /\ d_ret = Return(NoneD) /\ d_sent = 0

(* lines 131-134: authenticate, exit(1) without a token *)
Authenticate ==
    /\ pc = "auth"
    /\ \E resp \in AuthResponses :
         LET r == authenticate(resp) IN
         /\ auth_resp' = resp
         /\ auth_requests' = auth_requests + 1
         /\ IF r.raised # "none"
              THEN pc' = "error" /\ failed_at' = "auth" /\ UNCHANGED api_token
              ELSE /\ api_token' = r.value
                   /\ pc' = IF TokenIsNone(r.value) THEN "exit1" ELSE "read"
                   /\ UNCHANGED failed_at
    /\ UNCHANGED << hdbs, mrts, malls, schools, BATCH_SIZE, BATCHES, i, batch,
                    features, store, store0, route_requests, window_requests,
                    tokens_used, sleeps, appends, taken, lookup_failed >>
    /\ UNCHANGED << nearestVars, distanceVars >>

(* lines 136-144: the tables are read and BATCHES is computed *)
ReadCsvs ==
    /\ pc = "read"
    /\ BATCHES' = NumBatches(Len(hdbs), BATCH_SIZE)
    /\ i' = 0
    /\ pc' = "loop"
    /\ UNCHANGED << api_token, hdbs, mrts, malls, schools, BATCH_SIZE, batch,
                    features, store, store0, auth_resp, auth_requests,
                    route_requests, window_requests, tokens_used, sleeps,
                    appends, taken, lookup_failed, failed_at >>
    /\ UNCHANGED << nearestVars, distanceVars >>

(* lines 145-148 and 100-103: the next batch is sliced, or the loop ends *)
LoopHead ==
    /\ pc = "loop"
    /\ IF i < BATCHES
         THEN LET start == BatchStart(i, BATCH_SIZE)
                  end == BatchEnd(start, BATCH_SIZE, Len(hdbs))
                  b == ILoc(hdbs, start, end)
              IN /\ batch' = b
                 /\ taken' = taken \o b
                 /\ pc' = IF Len(b) = 0 THEN "write" ELSE "engineer"
         ELSE /\ pc' = "done"
              /\ UNCHANGED << batch, taken >>
    /\ features' = <<>>
    /\ lookup_failed' = <<>>
    /\ UNCHANGED << api_token, hdbs, mrts, malls, schools, BATCH_SIZE, BATCHES, i,
                    store, store0, auth_resp, auth_requests, route_requests,
                    window_requests, tokens_used, sleeps, appends, failed_at >>
    /\ UNCHANGED << nearestVars, distanceVars >>

(* A routing answer that carries a distance: the lookup did not fail *)
LookupSucceeded(resp) ==
    /\ resp.kind = "http"
    /\ resp.status = 200
    /\ resp.body.parse = "dict"
    /\ resp.body.route_summary = "dict"
    /\ ~resp.body.total_distance.none

(* lines 105-117: one subject of the batch *)
SubjectStep ==
    /\ pc = "engineer"
    /\ Len(features) < Len(batch)
    /\ \E r1, r2 \in RouteResponses :
         LET s == batch[Len(features) + 1]
             out == EngineerSubject(s, mrts, malls, schools, api_token, r1, r2)
             n == Len(out.requests)
         IN /\ route_requests' = route_requests + n
            /\ window_requests' = window_requests + n
            /\ tokens_used' = tokens_used \cup {out.requests[k].token : k \in 1..n}
            /\ IF out.raised # "none"
                 THEN /\ pc' = "error"
                      /\ failed_at' = "engineer"
                      /\ UNCHANGED << features, lookup_failed >>
                 ELSE /\ features' = Append(features, out.feature)
                      /\ lookup_failed' = Append(lookup_failed,
                              << ~LookupSucceeded(r1), ~LookupSucceeded(r2) >>)
                      /\ pc' = IF Len(features) + 1 = Len(batch)
                                 THEN "write" ELSE "engineer"
                      /\ UNCHANGED failed_at
    /\ UNCHANGED << api_token, hdbs, mrts, malls, schools, BATCH_SIZE, BATCHES, i,
                    batch, store, store0, auth_resp, auth_requests, sleeps,
                    appends, taken >>
    /\ UNCHANGED << nearestVars, distanceVars >>

(* lines 119-127 and 150-151: the batch's rows are appended to the file *)
ToCsv ==
    /\ pc = "write"
    /\ store' = to_csv(EnrichedRows(batch, features), store, ToCsvHeader)
    /\ appends' = appends + 1
    /\ pc' = "sleep"
    /\ UNCHANGED << api_token, hdbs, mrts, malls, schools, BATCH_SIZE, BATCHES, i,
                    batch, features, store0, auth_resp, auth_requests,
                    route_requests, window_requests, tokens_used, sleeps, taken,
                    lookup_failed, failed_at >>
    /\ UNCHANGED << nearestVars, distanceVars >>

(* lines 150-151 when the write fails or the process dies during it: the  *)
(* file is opened in append mode and written in place, so any number of   *)
(* the batch's rows may already be in it.                                 *)
ToCsvFail ==
    /\ pc = "write"
    /\ \E k \in 0..Len(batch) :
         store' = to_csv(SubSeq(EnrichedRows(batch, features), 1, k), store, ToCsvHeader)
    /\ pc' = "error"
    /\ failed_at' = "write"
    /\ UNCHANGED << api_token, hdbs, mrts, malls, schools, BATCH_SIZE, BATCHES, i,
                    batch, features, store0, auth_resp, auth_requests,
                    route_requests, window_requests, tokens_used, sleeps, appends,
                    taken, lookup_failed >>
    /\ UNCHANGED << nearestVars, distanceVars >>

(* line 152: time.sleep(30), then the next iteration of the loop *)
Sleep ==
    /\ pc = "sleep"
    /\ sleeps' = sleeps + 1
    /\ window_requests' = 0
    /\ i' = i + 1
    /\ pc' = "loop"
    /\ UNCHANGED << api_token, hdbs, mrts, malls, schools, BATCH_SIZE, BATCHES,
                    batch, features, store, store0, auth_resp, auth_requests,
                    route_requests, tokens_used, appends, taken, lookup_failed, failed_at >>
    /\ UNCHANGED << nearestVars, distanceVars >>

(* The process is killed between two steps of the script *)
Interrupt ==
    /\ Running
    /\ pc' = "interrupted"
    /\ UNCHANGED << api_token, hdbs, mrts, malls, schools, BATCH_SIZE, BATCHES, i,
                    batch, features, store, store0, auth_resp, auth_requests,
                    route_requests, window_requests, tokens_used, sleeps, appends,
                    taken, lookup_failed, failed_at >>
    /\ UNCHANGED << nearestVars, distanceVars >>

Next ==
    \/ Authenticate
    \/ ReadCsvs
    \/ LoopHead
    \/ SubjectStep
    \/ ToCsv
    \/ ToCsvFail
    \/ Sleep
    \/ Interrupt

Spec == Init /\ [][Next]_vars

----------------------------------------------------------------------------
(* A single call of nearest_loc on arbitrary inputs *)

InitNearest ==
    /\ n_pc = "call"
    /\ n_query \in Points
    /\ n_cands \in SeqsUpTo(CandidateRows, MaxCandidates)
    /\ n_ret = Return(NoNearest)
    /\ pc = "idle" /\ api_token = "unset"
    /\ hdbs = <<>> /\ mrts = <<>> /\ malls = <<>> /\ schools = <<>>
    /\ BATCH_SIZE = 1 /\ BATCHES = 0 /\ i = 0 /\ batch = <<>> /\ features = <<>>
    /\ store0 = <<>> /\ store = <<>>
    /\ auth_resp = NoResponse /\ auth_requests = 0 /\ route_requests = 0
    /\ window_requests = 0 /\ tokens_used = {} /\ sleeps = 0 /\ appends = 0
    /\ taken = <<>> /\ lookup_failed = <<>> /\ failed_at = "nowhere"
    /\ d_pc = "idle" /\ d_args = RouteRequest(0, 0, 0, 0, None)
    /\ d_resp = NoResponse /\ d_ret = Return(NoneD) /\ d_sent = 0

CallNearestLoc ==
    /\ n_pc = "call"
    /\ n_ret' = nearest_loc(n_query[1], n_query[2], n_cands)
    /\ n_pc' = "returned"
    /\ UNCHANGED << n_query, n_cands >>
    /\ UNCHANGED << mainVars, distanceVars >>

NextNearest == CallNearestLoc

SpecNearest == InitNearest /\ [][NextNearest]_vars

----------------------------------------------------------------------------
(* A single call of get_distance against every answer of the endpoint *)

InitDistance ==
    /\ d_pc = "call"
    /\ d_args \in {RouteRequest(p[1], p[2], q[1], q[2], t) :
                      p \in Points, q \in Points, t \in Tokens}
    /\ d_resp \in RouteResponses
    /\ d_ret = Return(NoneD)
    /\ d_sent = 0
    /\ pc = "idle" /\ api_token = "unset"
    /\ hdbs = <<>> /\ mrts = <<>> /\ malls = <<>> /\ schools = <<>>
    /\ BATCH_SIZE = 1 /\ BATCHES = 0 /\ i = 0 /\ batch = <<>> /\ features = <<>>
    /\ store0 = <<>> /\ store = <<>>
    /\ auth_resp = NoResponse /\ auth_requests = 0 /\ route_requests = 0
    /\ window_requests = 0 /\ tokens_used = {} /\ sleeps = 0 /\ appends = 0
    /\ taken = <<>> /\ lookup_failed = <<>> /\ failed_at = "nowhere"
    /\ n_pc = "idle" /\ n_query = <<0, 0>> /\ n_cands = <<>> /\ n_ret = Return(NoNearest)

CallGetDistance ==
    /\ d_pc = "call"
    /\ LET r == get_distance(d_resp) IN
         /\ d_ret' = [raised |-> r.raised, value |-> r.value]
         /\ d_sent' = d_sent + r.sent
    /\ d_pc' = "returned"
    /\ UNCHANGED << d_args, d_resp >>
    /\ UNCHANGED << mainVars, nearestVars >>

NextDistance == CallGetDistance

SpecDistance == InitDistance /\ [][NextDistance]_vars

----------------------------------------------------------------------------
(* Properties of the batch loop *)

(* ceil(n / b): the least k with k * b >= n *)
CeilDiv(n, b) == CHOOSE k \in 0..n : k * b >= n /\ \A j \in 0..(k - 1) : j * b < n

IsPrefix(a, b) == Len(a) <= Len(b) /\ a = SubSeq(b, 1, Len(a))

InBatch == pc \in {"engineer", "write", "sleep"}

(* The data lines the run has added to the file *)
Added == SubSeq(store, Len(store0) + 1, Len(store))

AllTablesNonEmpty == Len(mrts) > 0 /\ Len(malls) > 0 /\ Len(schools) > 0

(* C1: the batch loop splits the N subjects into exactly ceil(N/B)         *)
(* contiguous batches; every batch holds B subjects except possibly the    *)
(* last, which holds between 1 and B; and the batches taken in loop order  *)
(* cover every subject exactly once, in input order.                       *)
C1_BatchesPartitionSubjects ==
    /\ pc \in {"loop", "engineer", "write", "sleep", "done"} =>
          BATCHES = CeilDiv(Len(hdbs), BATCH_SIZE)
    /\ IsPrefix(taken, hdbs)
    /\ InBatch =>
          /\ i < BATCHES
          /\ Len(batch) >= 1 /\ Len(batch) <= BATCH_SIZE
          /\ i < BATCHES - 1 => Len(batch) = BATCH_SIZE
          /\ Len(taken) = i * BATCH_SIZE + Len(batch)
          /\ batch = SubSeq(hdbs, i * BATCH_SIZE + 1, Len(taken))
    /\ pc = "loop" => Len(taken) = Min(i * BATCH_SIZE, Len(hdbs))
    /\ pc = "done" => i = BATCHES /\ taken = hdbs

C1_Witness ==
    /\ pc = "done"
    /\ Len(hdbs) = 3 /\ BATCH_SIZE = 2
    /\ BATCHES = 2 /\ appends = 2
    /\ Len(batch) = 1

(* C2: the routing requests issued before the first cooldown, and between  *)
(* two consecutive cooldowns, number at most batchSize.                    *)
C2_RequestsPerWindowAtMostBatchSize == window_requests <= BATCH_SIZE

(* C3: after a complete run over N >= 1 subjects against an initially      *)
(* empty output file, the file holds one header line followed by exactly   *)
(* N data lines.                                                           *)
C3_HeaderOnceThenRows ==
    (pc = "done" /\ store0 = <<>> /\ Len(hdbs) >= 1) =>
        /\ Len(store) = Len(hdbs) + 1
        /\ store[1].header
        /\ \A k \in 2..Len(store) : ~store[k].header

(* C5: a failed distance lookup aborts neither the subject nor the batch:  *)
(* every subject processed so far has one feature record, with null in     *)
(* exactly the distance fields whose lookup failed and the nearest and     *)
(* within-1km fields filled in; the batch is written with one row per      *)
(* subject; and with non-empty candidate tables the enrichment of a        *)
(* subject never ends the run.                                             *)
C5_FailedLookupYieldsNullField ==
    /\ InBatch =>
          /\ Len(features) = Len(lookup_failed)
          /\ Len(features) <= Len(batch)
          /\ \A k \in 1..Len(features) :
                /\ features[k].Distance_MRT.none <=> lookup_failed[k][1]
                /\ features[k].Distance_Mall.none <=> lookup_failed[k][2]
                /\ features[k].Nearest_MRT \in {mrts[j].Address : j \in 1..Len(mrts)}
                /\ features[k].Nearest_Mall \in {malls[j].Address : j \in 1..Len(malls)}
                /\ features[k].Nearest_Pri_Sch \in {schools[j].Address : j \in 1..Len(schools)}
                /\ features[k].Within_1km_of_Pri =
                      nearest_loc(batch[k].Lat, batch[k].Long, schools).value.within_1km
    /\ pc \in {"write", "sleep"} => Len(features) = Len(batch)
    /\ pc = "sleep" =>
          /\ Len(Added) >= Len(batch)
          /\ \A k \in 1..Len(batch) :
                LET line == Added[Len(Added) - Len(batch) + k] IN
                /\ ~line.header
                /\ line.row = EnrichedRow(batch[k], features[k])
    /\ (pc = "error" /\ failed_at = "engineer") => ~AllTablesNonEmpty

C5_Witness ==
    /\ pc = "sleep"
    /\ Len(batch) = 2
    /\ lookup_failed = << <<TRUE, FALSE>>, <<FALSE, TRUE>> >>
    /\ features[1].Distance_MRT = NoneD /\ features[1].Distance_Mall = Some(350)
    /\ features[2].Distance_MRT = Some(350) /\ features[2].Distance_Mall = NoneD
    /\ i = 0 /\ BATCHES = 2

(* C6: authentication failure is fatal.  When the auth endpoint rejects    *)
(* the credentials, is unreachable or answers without a token, the run     *)
(* ends before the batch loop: no routing request, no line written, no     *)
(* cooldown.  The token is requested once, and every routing request       *)
(* carries the token that request returned.                                *)
AuthFailed(resp) ==
    ~ ( /\ resp.kind = "http"
        /\ resp.status = 200
        /\ resp.body.parse = "dict"
        /\ resp.body.access_token # None )

C6_AuthFailureIsFatal ==
    /\ auth_requests <= 1
    /\ auth_requests = 1 <=> auth_resp # NoResponse
    /\ pc \notin {"auth", "interrupted"} => auth_requests = 1
    /\ auth_requests = 0 => route_requests = 0 /\ store = store0 /\ sleeps = 0
    /\ (auth_requests = 1 /\ AuthFailed(auth_resp)) =>
          /\ pc \in {"exit1", "error"}
          /\ route_requests = 0 /\ tokens_used = {}
          /\ store = store0
          /\ sleeps = 0 /\ appends = 0
          /\ taken = <<>> /\ BATCHES = 0
    /\ (auth_requests = 1 /\ ~AuthFailed(auth_resp)) =>
          api_token = auth_resp.body.access_token
    /\ route_requests > 0 => tokens_used = {api_token}

C6_Witness ==
    /\ pc = "exit1"
    /\ auth_resp.kind = "http" /\ auth_resp.status = 200
    /\ auth_resp.body.parse = "dict" /\ auth_resp.body.access_token = None
    /\ Len(hdbs) = 3 /\ AllTablesNonEmpty

(* C7: batches are processed and appended one after the other in input     *)
(* order, a cooldown follows every append including the last, and the data *)
(* lines of the file are at all times the rows of an input-order prefix of *)
(* the subjects: of the first min(k*B, N) subjects after k appends.        *)
C7_OutputInInputOrder ==
    /\ pc \in {"loop", "engineer", "write", "done"} => appends = i /\ sleeps = i
    /\ pc = "sleep" => appends = i + 1 /\ sleeps = i
    /\ pc = "done" => sleeps = BATCHES /\ appends = BATCHES
    /\ IsPrefix(store0, store)
    /\ Len(Added) <= Len(hdbs)
    /\ \A k \in 1..Len(Added) :
          /\ ~Added[k].header
          /\ Added[k].row.Address = hdbs[k].Address
          /\ Added[k].row.Lat = hdbs[k].Lat
          /\ Added[k].row.Long = hdbs[k].Long
    /\ pc # "error" => Len(Added) = Min(appends * BATCH_SIZE, Len(hdbs))

C7_Witness ==
    /\ pc = "done"
    /\ Len(hdbs) = 3 /\ BATCH_SIZE = 2
    /\ sleeps = 2 /\ appends = 2
    /\ Len(Added) = 3
    /\ Added[3].row.Address = 3

(* C8: whatever interrupts the run, the file holds whole batches only:     *)
(* the lines added are those of the first k batches, for some k.           *)
C8_WholeBatchesOnly ==
    \E k \in 0..BATCHES : Len(Added) = Min(k * BATCH_SIZE, Len(hdbs))

----------------------------------------------------------------------------
(* Properties of get_distance *)

(* C4: get_distance never raises.  Whatever the routing endpoint answers,  *)
(* it returns None unless the call succeeds with a well-formed response,   *)
(* and then the total distance of the response; it sends one request.      *)
C4_GetDistanceNeverRaises ==
    d_pc = "returned" =>
        /\ d_ret.raised = "none"
        /\ d_sent = 1
        /\ IF LookupSucceeded(d_resp)
             THEN d_ret.value = d_resp.body.total_distance /\ ~d_ret.value.none
             ELSE d_ret.value = NoneD

C4_Witness ==
    /\ d_pc = "returned"
    /\ d_resp.kind = "http" /\ d_resp.status = 200
    /\ d_resp.body.parse = "notdict"
    /\ d_ret = Return(NoneD)

----------------------------------------------------------------------------
(* Properties of nearest_loc *)

QueryDist(k) == Haversine(n_query, <<n_cands[k].Lat, n_cands[k].Long>>)

(* C9: on a non-empty candidate table nearest_loc returns a candidate of   *)
(* the table than which none is strictly nearer to the query, the first    *)
(* such candidate in table order; on an empty table it raises.             *)
C9_NearestIsFirstMinimum ==
    n_pc = "returned" =>
        IF Len(n_cands) = 0
          THEN n_ret.raised # "none"
          ELSE /\ n_ret.raised = "none"
               /\ \E k \in 1..Len(n_cands) :
                     /\ n_ret.value.Address = n_cands[k].Address
                     /\ n_ret.value.Lat = n_cands[k].Lat
                     /\ n_ret.value.Long = n_cands[k].Long
                     /\ \A j \in 1..Len(n_cands) : QueryDist(j) >= QueryDist(k)
                     /\ \A j \in 1..(k - 1) : QueryDist(j) > QueryDist(k)

C9_Witness ==
    /\ n_pc = "returned"
    /\ Len(n_cands) = 2
    /\ QueryDist(1) = QueryDist(2)
    /\ n_cands[1].Address # n_cands[2].Address
    /\ n_ret.raised = "none"
    /\ n_ret.value.Address = n_cands[1].Address

(* C10: within_1km is None iff the distance d to the returned candidate is *)
(* 0, True iff 0 < d <= 1 and False iff d > 1.                             *)
C10_WithinThresholdTriState ==
    (n_pc = "returned" /\ Len(n_cands) > 0) =>
        LET d == Haversine(n_query, <<n_ret.value.Lat, n_ret.value.Long>>)
            w == n_ret.value.within_1km
        IN /\ n_ret.raised = "none"
           /\ w = None <=> d = 0
           /\ w = "True" <=> (0 < d /\ d <= 1)
           /\ w = "False" <=> d > 1

C10_Witness ==
    /\ n_pc = "returned"
    /\ Len(n_cands) = 2
    /\ n_query = <<n_cands[2].Lat, n_cands[2].Long>>
    /\ n_query # <<n_cands[1].Lat, n_cands[1].Long>>
    /\ n_ret.value.within_1km = None

====
